---- MODULE Spec2Model ----
(***************************************************************************)
(* The JFR upload daemon of go-sidecar: the directory watcher, the         *)
(* periodic reconciliation scan, processFile and GCSUploader.Upload,       *)
(* together with the producer (a JVM writing .jfr files) and the remote    *)
(* object store they run against.                                          *)
(*                                                                         *)
(* A name (a path element) is a sequence of characters.  A path is the     *)
(* sequence of its elements: /tmp/jfr/q/a.jfr is <<tmp, jfr, q, a.jfr>>,   *)
(* and the object name q/a.jfr is <<q, a.jfr>>.  Splitting a path at the   *)
(* separator yields its elements.                                          *)
(***************************************************************************)
EXTENDS Integers, Sequences, FiniteSets, TLC

(***************************************************************************)
(* Bounds of the model.                                                    *)
(***************************************************************************)
\* most bytes a producer writes into one file (one byte per write call)
MaxChunks == 2
\* capacity of the notification queue; a notification that finds it full is dropped
MaxQueue == 1
\* most I/O and remote faults injected in one run
MaxFaults == 1
\* most times the daemon process is killed and restarted in one run
MaxCrashes == 1

(***************************************************************************)
(* Names and paths.                                                        *)
(***************************************************************************)
\* strings.HasSuffix on a name
HasSuffix(s, suffix) ==
    /\ Len(s) >= Len(suffix)
    /\ SubSeq(s, Len(s) - Len(suffix) + 1, Len(s)) = suffix

\* strings.HasSuffix on a path, for a suffix without a separator: it is a
\* suffix of the path's last element
PathHasSuffix(path, suffix) ==
    /\ path # <<>>
    /\ HasSuffix(path[Len(path)], suffix)

\* filepath.Join(dir, name)
Join(dir, name) == Append(dir, name)

\* filepath.Base: the last element of the path
Base(path) == IF path = <<>> THEN <<"/">> ELSE path[Len(path)]

\* filepath.Dir: the path without its last element
Dir(path) == IF path = <<>> THEN <<>> ELSE SubSeq(path, 1, Len(path) - 1)

\* number of leading elements two paths share
CommonLen(a, b) ==
    Cardinality({k \in 1..Len(a) : k <= Len(b) /\ SubSeq(a, 1, k) = SubSeq(b, 1, k)})

\* filepath.Rel(basepath, targpath) for clean absolute paths: "." when equal,
\* otherwise one ".." per element of basepath left after the common prefix,
\* followed by what is left of targpath
Rel(basepath, targpath) ==
    IF basepath = targpath THEN << <<".">> >>
    ELSE [i \in 1..(Len(basepath) - CommonLen(basepath, targpath)) |-> <<".", ".">>]
         \o SubSeq(targpath, CommonLen(basepath, targpath) + 1, Len(targpath))

\* fmt.Sprintf("%s/%s", podName, filename)
ObjectPath(podName, filename) == <<podName, filename>>

(***************************************************************************)
(* The directory tree of the model.                                        *)
(***************************************************************************)
rootProfileDir == << <<"t", "m", "p">>, <<"j", "f", "r">> >>
JfrExt == <<".", "j", "f", "r">>

DirQ == Join(rootProfileDir, <<"q">>)
\* an artifact directly under the root, and one inside a pod's directory
FileX == Join(rootProfileDir, <<"x", ".", "j", "f", "r">>)
FileQA == Join(DirQ, <<"a", ".", "j", "f", "r">>)

AllDirs == {rootProfileDir, DirQ}
AllFiles == {FileX, FileQA}
\* directories that exist before the daemon and the producer start
InitialDirs == {rootProfileDir}
\* the sets of files a producer may create in one run: one artifact
Scenarios == {{f} : f \in AllFiles}

\* the directory entries directly inside dir d, over a given set of paths
Entries(d, paths) == {x \in paths : x # d /\ Dir(x) = d}

\* byte order of the characters that occur in the model's names
Alphabet == <<".", "a", "b", "d", "f", "j", "m", "n", "p", "q", "r", "s", "t", "x">>
CharRank(c) == CHOOSE i \in 1..Len(Alphabet) : Alphabet[i] = c

\* a < b in the byte order of names: at the first place where they differ, a
\* has ended or has the smaller character
Less(a, b) ==
    \E k \in 1..Len(b) :
        /\ k - 1 <= Len(a)
        /\ SubSeq(a, 1, k - 1) = SubSeq(b, 1, k - 1)
        /\ \/ k > Len(a)
           \/ CharRank(a[k]) < CharRank(b[k])

\* readDirNames: the entries of one directory in the order of their names
SortedSeq(S) ==
    [i \in 1..Cardinality(S) |->
        CHOOSE x \in S : Cardinality({y \in S : Less(Base(y), Base(x))}) = i - 1]

\* the i-th byte the producer writes into file f
FileId(f) == IF f = FileX THEN 1 ELSE 2
ByteOf(f, i) == 10 * FileId(f) + i

(***************************************************************************)
(* State.                                                                  *)
(***************************************************************************)
VARIABLES
    plan,       \* producer: the files it is going to create in this run
    made,       \* producer: files it has created so far
    open,       \* producer: files it has created and not yet finished
    dirs,       \* file system: existing directories
    present,    \* file system: files that have a directory entry
    content,    \* file system: bytes of each file (of its inode, also once unlinked)
    watched,    \* watcher: the subscription set
    events,     \* watcher: queue of notifications not yet received by the loop
    remote,     \* object store: committed objects, each [name, data]
    pc,         \* daemon: position of the (single) daemon goroutine
    via,        \* daemon: what discovered the current candidate, "event" or "scan"
    cur,        \* daemon: filePath of the processFile call in progress
    walk,       \* daemon: paths filepath.Walk has still to visit, next first
    fsize,      \* Upload: fileInfo.Size() of the first Stat
    off,        \* Upload: read offset of the open file
    wbuf,       \* Upload: bytes handed to the object writer so far
    upOk,       \* processFile: Upload returned nil in this attempt
    res,        \* processFile: what the call returned, "none" while it runs
    faults,     \* faults injected so far
    crashes,    \* kills of the daemon process so far
    due,        \* scan: artifacts that were complete when the walk in progress began
                \* and that no fault has hit since (history)
    req,        \* control surface: the create request it has served, if any
    api,        \* control surface: its process, "serving" or "terminated"
    calls       \* uploader: the locals of the Upload calls in progress side by side

vars == <<plan, made, open, dirs, present, content, watched, events, remote, pc, via,
          cur, walk, fsize, off, wbuf, upOk, res, faults, crashes, due, req, api, calls>>

NoPath == <<>>
NoReq == [name |-> <<>>, path |-> NoPath]

Init ==
    /\ plan \in Scenarios
    /\ made = {}
    /\ open = {}
    /\ dirs = InitialDirs
    /\ present = {}
    /\ content = [f \in AllFiles |-> <<>>]
    /\ watched = {}
    /\ events = <<>>
    /\ remote = {}
    /\ pc = "stopped"
    /\ via = "none"
    /\ cur = NoPath
    /\ walk = <<>>
    /\ fsize = 0
    /\ off = 0
    /\ wbuf = <<>>
    /\ upOk = FALSE
    /\ res = "none"
    /\ faults = 0
    /\ crashes = 0
    /\ due = {}
    /\ req = NoReq
    /\ api = "serving"
    /\ calls = <<>>

(***************************************************************************)
(* The watcher's notification queue (fsnotify over inotify): a change to   *)
(* an entry is notified when the entry's directory is subscribed; a        *)
(* notification that finds the queue full is lost.                         *)
(***************************************************************************)
Event(name, op) == [name |-> name, op |-> op]

Notify(q, name, op) ==
    IF Dir(name) \in watched /\ Len(q) < MaxQueue
    THEN Append(q, Event(name, op))
    ELSE q

(***************************************************************************)
(* The producer: creates the per-pod directory, creates the file empty,    *)
(* then appends to it one write at a time.  A producer that still holds    *)
(* the file open after the daemon unlinked it writes to the unlinked file. *)
(***************************************************************************)
Mkdir(d) ==
    /\ d \notin dirs
    /\ Dir(d) \in dirs
    /\ \E f \in plan : Dir(f) = d
    /\ dirs' = dirs \cup {d}
    /\ events' = Notify(events, d, {"Create"})
    /\ UNCHANGED <<plan, made, open, present, content, watched, remote, pc, via, cur,
                   walk, fsize, off, wbuf, upOk, res, faults, crashes, due, req, api, calls>>

CreateFile(f) ==
    /\ f \in plan
    /\ f \notin made
    /\ Dir(f) \in dirs
    /\ made' = made \cup {f}
    /\ open' = open \cup {f}
    /\ present' = present \cup {f}
    /\ events' = Notify(events, f, {"Create"})
    /\ UNCHANGED <<plan, dirs, content, watched, remote, pc, via, cur, walk,
                   fsize, off, wbuf, upOk, res, faults, crashes, due, req, api, calls>>

WriteChunk(f) ==
    /\ f \in open
    /\ Len(content[f]) < MaxChunks
    /\ content' = [content EXCEPT ![f] = Append(@, ByteOf(f, Len(@) + 1))]
    /\ events' = IF f \in present THEN Notify(events, f, {"Write"}) ELSE events
    /\ UNCHANGED <<plan, made, open, dirs, present, watched, remote, pc, via, cur,
                   walk, fsize, off, wbuf, upOk, res, faults, crashes, due, req, api, calls>>

\* the producer ends the recording: it will write nothing more into f
Finish(f) ==
    /\ f \in open
    /\ open' = open \ {f}
    /\ UNCHANGED <<plan, made, dirs, present, content, watched, events, remote, pc,
                   via, cur, walk, fsize, off, wbuf, upOk, res, faults, crashes, due, req, api, calls>>

\* the producer has written everything it will ever write into f
Finished(f) == f \in made /\ f \notin open

\* a complete, non-empty artifact in a per-pod directory, waiting on disk
Settled(f) ==
    /\ Dir(f) # rootProfileDir
    /\ Finished(f)
    /\ f \in present
    /\ content[f] # <<>>

(***************************************************************************)
(* The object store behind storage.Writer: nothing is visible while the    *)
(* writer is open; Close commits what was written as the whole object,     *)
(* replacing an object of the same name.                                   *)
(***************************************************************************)
Object(name, data) == [name |-> name, data |-> data]

\* variant: a store that keeps the object it had under the name
CommitKeepsOld(store, name, data) == store \cup {Object(name, data)}

Commit(store, name, data) ==
    {o \in store : o.name # name} \cup {Object(name, data)}

HasObject(name) == \E o \in remote : o.name = name
ObjectData(name) == (CHOOSE o \in remote : o.name = name).data

(***************************************************************************)
(* The daemon.                                                             *)
(***************************************************************************)
\* processFile, lines 113-123: the path relative to the root, split
Parts(filePath) == Rel(rootProfileDir, filePath)
\* variant: the depth test off by one
ValidStructureLoose(filePath) == Len(Parts(filePath)) >= 1
ValidStructure(filePath) == Len(Parts(filePath)) >= 2
\* variant: the last element taken for the pod name
PodNameLast(filePath) == Parts(filePath)[Len(Parts(filePath))]
PodName(filePath) == Parts(filePath)[1]
\* Upload, lines 62-63
ObjectOf(filePath) == ObjectPath(PodName(filePath), Base(filePath))

\* variant: a startup failure is logged and the loop is entered all the same
StartFatalDegraded ==
    /\ pc = "stopped"
    /\ pc' = "idle"
    /\ UNCHANGED <<plan, made, open, dirs, present, content, watched, events, remote, via,
                   cur, walk, fsize, off, wbuf, upOk, res, faults,
                   crashes, due, req, api, calls>>

\* Start: the fatal exits before the event loop (no bucket, no client, no watcher)
StartFatal ==
    /\ pc = "stopped"
    /\ pc' = "fatal"
    /\ UNCHANGED <<plan, made, open, dirs, present, content, watched, events, remote, via,
                   cur, walk, fsize, off, wbuf, upOk, res, faults,
                   crashes, due, req, api, calls>>

\* watchDirectoryRecursive, lines 181-185, and Start, lines 48-50: watcher.Add
\* fails for a directory below the root; the walk returns the error and
\* Start exits
WatchFault(d) ==
    /\ pc = "stopped"
    /\ d \in dirs
    /\ d # rootProfileDir
    /\ faults < MaxFaults
    /\ faults' = faults + 1
    /\ pc' = "fatal"
    /\ UNCHANGED <<plan, made, open, dirs, present, content, watched, events, remote, via,
                   cur, walk, fsize, off, wbuf, upOk, res, crashes, due, req, api, calls>>

\* variant: Start subscribes and enters the event loop without the initial
\* scan
StartSkipsScan ==
    /\ pc = "stopped"
    /\ watched' = dirs
    /\ pc' = "idle"
    /\ UNCHANGED <<plan, made, open, dirs, present, content, events, remote, via, cur, walk,
                   fsize, off, wbuf, upOk, res, faults, crashes, due, req, api, calls>>

\* Start up to the initial scan: watchDirectoryRecursive subscribes to every
\* directory that exists, then scanAndUploadExisting begins its walk
Start ==
    /\ pc = "stopped"
    /\ watched' = dirs
    /\ pc' = "walk"
    /\ via' = "scan"
    /\ walk' = <<rootProfileDir>>
    /\ due' = {f \in AllFiles : Settled(f)}
    /\ UNCHANGED <<plan, made, open, dirs, present, content, events, remote, cur,
                   fsize, off, wbuf, upOk, res, faults, crashes, req, api, calls>>

\* variant: a tick starts a scan while a candidate is being processed
TickAnytime ==
    /\ pc \notin {"stopped", "fatal", "walk"}
    /\ pc' = "walk"
    /\ via' = "scan"
    /\ walk' = <<rootProfileDir>>
    /\ due' = {f \in AllFiles : Settled(f)}
    /\ UNCHANGED <<plan, made, open, dirs, present, content, watched, events, remote, cur,
                   fsize, off, wbuf, upOk, res, faults, crashes, req, api, calls>>

\* the event loop receives a tick: scanAndUploadExisting begins its walk
Tick ==
    /\ pc = "idle"
    /\ pc' = "walk"
    /\ via' = "scan"
    /\ walk' = <<rootProfileDir>>
    /\ due' = {f \in AllFiles : Settled(f)}
    /\ UNCHANGED <<plan, made, open, dirs, present, content, watched, events, remote, cur,
                   fsize, off, wbuf, upOk, res, faults, crashes, req, api, calls>>

\* variant: once an attempt has failed the scan leaves the files alone
WalkStepGivesUp ==
    /\ pc = "walk"
    /\ walk # <<>>
    /\ LET path == Head(walk) IN
        IF path \in dirs
        THEN /\ walk' = SortedSeq(Entries(path, dirs \cup present)) \o Tail(walk)
             /\ UNCHANGED <<pc, cur>>
        ELSE IF path \in present /\ HasSuffix(Base(path), JfrExt) /\ faults = 0
        THEN /\ walk' = Tail(walk)
             /\ pc' = "process"
             /\ cur' = path
        ELSE /\ walk' = Tail(walk)
             /\ UNCHANGED <<pc, cur>>
    /\ UNCHANGED <<plan, made, open, dirs, present, content, watched, events, remote,
                   via, fsize, off, wbuf, upOk, res, faults, crashes, due, req, api, calls>>

\* variant: the walk callback does not process the files it finds
WalkStepSkipsFiles ==
    /\ pc = "walk"
    /\ walk # <<>>
    /\ IF Head(walk) \in dirs
       THEN walk' = SortedSeq(Entries(Head(walk), dirs \cup present)) \o Tail(walk)
       ELSE walk' = Tail(walk)
    /\ UNCHANGED <<plan, made, open, dirs, present, content, watched, events, remote,
                   pc, via, cur, fsize, off, wbuf, upOk, res, faults, crashes, due, req, api, calls>>

\* filepath.Walk visits the next path: a vanished entry is reported to the
\* callback, which continues; a directory is listed and its entries are visited
\* next; a file with the artifact extension is handed to processFile
WalkStep ==
    /\ pc = "walk"
    /\ walk # <<>>
    /\ LET path == Head(walk) IN
        IF path \in dirs
        THEN /\ walk' = SortedSeq(Entries(path, dirs \cup present)) \o Tail(walk)
             /\ UNCHANGED <<pc, cur>>
        ELSE IF path \in present /\ HasSuffix(Base(path), JfrExt)
        THEN /\ walk' = Tail(walk)
             /\ pc' = "process"
             /\ cur' = path
        ELSE /\ walk' = Tail(walk)
             /\ UNCHANGED <<pc, cur>>
    /\ UNCHANGED <<plan, made, open, dirs, present, content, watched, events, remote, via,
                   fsize, off, wbuf, upOk, res, faults, crashes, due, req, api, calls>>

\* filepath.Walk has visited everything: the scan returns to the event loop
WalkEnd ==
    /\ pc = "walk"
    /\ walk = <<>>
    /\ pc' = "idle"
    /\ via' = "none"
    /\ due' = {}
    /\ UNCHANGED <<plan, made, open, dirs, present, content, watched, events, remote,
                   cur, walk, fsize, off, wbuf, upOk, res, faults,
                   crashes, req, api, calls>>

\* variant: every notification for an artifact leads to an attempt
RelevantAnyOp(event) == PathHasSuffix(event.name, JfrExt)

\* variant: every notification for an artifact that is not a Remove leads to
\* an attempt, a Chmod or a Rename too
RelevantNotRemove(event) ==
    /\ PathHasSuffix(event.name, JfrExt)
    /\ "Remove" \notin event.op

\* handleFileEvent, lines 88-98: which notifications lead to a processing attempt
Relevant(event) ==
    /\ PathHasSuffix(event.name, JfrExt)
    /\ "Remove" \notin event.op
    /\ ("Create" \in event.op \/ "Write" \in event.op)

\* the event loop receives a notification and calls handleFileEvent, which
\* returns at once or goes to sleep before processing the file
RecvEvent ==
    /\ pc = "idle"
    /\ events # <<>>
    /\ events' = Tail(events)
    /\ IF Relevant(Head(events))
       THEN /\ pc' = "settle"
            /\ via' = "event"
            /\ cur' = Head(events).name
       ELSE UNCHANGED <<pc, via, cur>>
    /\ UNCHANGED <<plan, made, open, dirs, present, content, watched, remote, walk,
                   fsize, off, wbuf, upOk, res, faults, crashes, due, req, api, calls>>

\* handleFileEvent, line 101: the five-second sleep is over
Settle ==
    /\ pc = "settle"
    /\ pc' = "process"
    /\ UNCHANGED <<plan, made, open, dirs, present, content, watched, events, remote, via,
                   cur, walk, fsize, off, wbuf, upOk, res, faults,
                   crashes, due, req, api, calls>>

\* what Upload can return an error for, and every error processFile can return;
\* "empty" and "deleted" are the two returns of nil
TransferErrors == {"openErr", "sizeChanged", "copyErr", "closeErr"}
ErrorResults == TransferErrors \cup {"structErr", "statErr", "removeErr"}

\* where control goes when processFile returns: back into the walk or to the loop
AfterAttempt == IF via = "scan" THEN "walk" ELSE "idle"

\* processFile returns the given result to its caller; Upload's locals are gone
Return(result) ==
    /\ res' = result
    /\ pc' = "ret"
    /\ fsize' = 0
    /\ off' = 0
    /\ wbuf' = <<>>
    /\ UNCHANGED <<via, cur, upOk>>

\* variant: the walk callback returns the error of processFile, which ends
\* the walk
ResumeAborts ==
    /\ pc = "ret"
    /\ IF via = "scan" /\ res \in ErrorResults
       THEN /\ pc' = "idle"
            /\ via' = "none"
            /\ walk' = <<>>
       ELSE /\ pc' = AfterAttempt
            /\ via' = IF via = "scan" THEN "scan" ELSE "none"
            /\ walk' = walk
    /\ cur' = NoPath
    /\ res' = "none"
    /\ upOk' = FALSE
    /\ UNCHANGED <<plan, made, open, dirs, present, content, watched, events, remote,
                   fsize, off, wbuf, faults, crashes, due, req, api, calls>>

\* the caller of processFile (handleFileEvent, lines 104-106, or the walk
\* callback, lines 165-170) logs an error result and carries on
Resume ==
    /\ pc = "ret"
    /\ pc' = AfterAttempt
    /\ via' = IF via = "scan" THEN "scan" ELSE "none"
    /\ cur' = NoPath
    /\ res' = "none"
    /\ upOk' = FALSE
    /\ UNCHANGED <<plan, made, open, dirs, present, content, watched, events, remote, walk,
                   fsize, off, wbuf, faults, crashes, due, req, api, calls>>

\* variant: processFile without the empty-file skip
ProcessFileNoEmptySkip ==
    /\ pc = "process"
    /\ IF ~ValidStructure(cur)
       THEN Return("structErr")
       ELSE IF cur \notin present
       THEN Return("statErr")
       ELSE /\ pc' = "open"
            /\ UNCHANGED <<via, cur, fsize, off, wbuf, upOk, res>>
    /\ UNCHANGED <<plan, made, open, dirs, present, content, watched, events, remote,
                   walk, faults, crashes, due, req, api, calls>>

\* variant: a file found by the scan is handed to Upload without the
\* empty-file skip, only a file found by an event is checked for it
ProcessFileScanUnchecked ==
    /\ pc = "process"
    /\ IF ~ValidStructure(cur)
       THEN Return("structErr")
       ELSE IF cur \notin present
       THEN Return("statErr")
       ELSE IF via = "event" /\ Len(content[cur]) = 0
       THEN Return("empty")
       ELSE /\ pc' = "open"
            /\ UNCHANGED <<via, cur, fsize, off, wbuf, upOk, res>>
    /\ UNCHANGED <<plan, made, open, dirs, present, content, watched, events, remote, walk,
                   faults, crashes, due, req, api, calls>>

\* variant: processFile without the Stat, a missing file is left to Upload
ProcessFileNoStat ==
    /\ pc = "process"
    /\ IF ~ValidStructure(cur)
       THEN Return("structErr")
       ELSE IF cur \in present /\ Len(content[cur]) = 0
       THEN Return("empty")
       ELSE /\ pc' = "open"
            /\ UNCHANGED <<via, cur, fsize, off, wbuf, upOk, res>>
    /\ UNCHANGED <<plan, made, open, dirs, present, content, watched, events, remote, walk,
                   faults, crashes, due, req, api, calls>>

\* processFile, lines 113-134: structure check, Stat, empty-file skip
ProcessFile ==
    /\ pc = "process"
    /\ IF ~ValidStructure(cur)
       THEN Return("structErr")
       ELSE IF cur \notin present
       THEN Return("statErr")
       ELSE IF Len(content[cur]) = 0
       THEN Return("empty")
       ELSE /\ pc' = "open"
            /\ UNCHANGED <<via, cur, fsize, off, wbuf, upOk, res>>
    /\ UNCHANGED <<plan, made, open, dirs, present, content, watched, events, remote, walk,
                   faults, crashes, due, req, api, calls>>


\* Upload, lines 37-47: os.Open and the first Stat
UploadOpen ==
    /\ pc = "open"
    /\ IF cur \notin present
       THEN /\ Return("openErr")
       ELSE /\ fsize' = Len(content[cur])
            /\ pc' = "recheck"
            /\ UNCHANGED <<via, cur, off, wbuf, upOk, res>>
    /\ UNCHANGED <<plan, made, open, dirs, present, content, watched, events, remote, walk, faults, crashes, due, req, api, calls>>

\* variant: Upload without the size comparison
UploadRecheckNoCompare ==
    /\ pc = "recheck"
    /\ pc' = "copy"
    /\ off' = 0
    /\ wbuf' = <<>>
    /\ UNCHANGED <<plan, made, open, dirs, present, content, watched, events, remote,
                   via, cur, walk, fsize, upOk, res, faults, crashes, due, req, api, calls>>

\* variant: the object writer is created, and closed, before the sizes are
\* compared
UploadRecheckWritesFirst ==
    /\ pc = "recheck"
    /\ IF Len(content[cur]) # fsize
       THEN /\ remote' = Commit(remote, ObjectOf(cur), <<>>)
            /\ Return("sizeChanged")
       ELSE /\ pc' = "copy"
            /\ off' = 0
            /\ wbuf' = <<>>
            /\ UNCHANGED <<remote, via, cur, fsize, upOk, res>>
    /\ UNCHANGED <<plan, made, open, dirs, present, content, watched, events, walk,
                   faults, crashes, due, req, api, calls>>

\* Upload, lines 51-68: the two-second sleep is over; the second Stat; the
\* size comparison; on equal sizes the object writer is created
UploadRecheck ==
    /\ pc = "recheck"
    /\ IF Len(content[cur]) # fsize
       THEN /\ Return("sizeChanged")
       ELSE /\ pc' = "copy"
            /\ off' = 0
            /\ wbuf' = <<>>
            /\ UNCHANGED <<via, cur, fsize, upOk, res>>
    /\ UNCHANGED <<plan, made, open, dirs, present, content, watched, events, remote, walk, faults, crashes, due, req, api, calls>>

\* variant: the local file is unlinked as soon as it has been read to its
\* end, before the object is finalized
CopyStepUnlinks ==
    /\ pc = "copy"
    /\ IF off = Len(content[cur])
       THEN /\ pc' = "close"
            /\ present' = present \ {cur}
            /\ UNCHANGED <<off, wbuf>>
       ELSE /\ \E n \in 1..(Len(content[cur]) - off) :
                 /\ wbuf' = wbuf \o SubSeq(content[cur], off + 1, off + n)
                 /\ off' = off + n
            /\ UNCHANGED <<pc, present>>
    /\ UNCHANGED <<plan, made, open, dirs, content, watched, events, remote,
                   via, cur, walk, fsize, upOk, res, faults, crashes, due, req, api, calls>>

\* variant: a single Read instead of a copy to the end of the file
CopyStepOnce ==
    /\ pc = "copy"
    /\ IF off > 0 \/ off = Len(content[cur])
       THEN /\ pc' = "close"
            /\ UNCHANGED <<off, wbuf>>
       ELSE /\ \E n \in 1..(Len(content[cur]) - off) :
                 /\ wbuf' = wbuf \o SubSeq(content[cur], off + 1, off + n)
                 /\ off' = off + n
            /\ UNCHANGED pc
    /\ UNCHANGED <<plan, made, open, dirs, present, content, watched, events, remote,
                   via, cur, walk, fsize, upOk, res, faults, crashes, due, req, api, calls>>

\* Upload, line 77: one round of io.Copy, a Read and the Write of what was
\* read; a Read returns some or all of the bytes between the offset and the
\* end of the file, and none at the end of the file, which ends the copy
CopyStep ==
    /\ pc = "copy"
    /\ IF off = Len(content[cur])
       THEN /\ pc' = "close"
            /\ UNCHANGED <<off, wbuf>>
       ELSE /\ \E n \in 1..(Len(content[cur]) - off) :
                 /\ wbuf' = wbuf \o SubSeq(content[cur], off + 1, off + n)
                 /\ off' = off + n
            /\ UNCHANGED pc
    /\ UNCHANGED <<plan, made, open, dirs, present, content, watched, events, remote,
                   via, cur, walk, fsize, upOk, res, faults, crashes, due, req, api, calls>>

\* Upload, lines 77-81: the Read of the local file fails; the writer, which
\* has seen no error, is closed, and what it was given so far is committed
CopyReadFault ==
    /\ pc = "copy"
    /\ faults < MaxFaults
    /\ faults' = faults + 1
    /\ remote' = Commit(remote, ObjectOf(cur), wbuf)
    /\ Return("copyErr")
    /\ due' = {}
    /\ UNCHANGED <<plan, made, open, dirs, present, content, watched, events, walk, crashes, req, api, calls>>

\* variant: the error of the copy is dropped and Upload returns nil
CopyWriteFaultSwallowed ==
    /\ pc = "copy"
    /\ off < Len(content[cur])
    /\ faults < MaxFaults
    /\ faults' = faults + 1
    /\ pc' = "remove"
    /\ upOk' = TRUE
    /\ due' = {}
    /\ UNCHANGED <<plan, made, open, dirs, present, content, watched, events, remote,
                   via, cur, walk, fsize, off, wbuf, res, crashes, req, api, calls>>

\* Upload, lines 77-81: the Write to the object writer fails; closing a
\* writer that has failed commits nothing
CopyWriteFault ==
    /\ pc = "copy"
    /\ off < Len(content[cur])
    /\ faults < MaxFaults
    /\ faults' = faults + 1
    /\ Return("copyErr")
    /\ due' = {}
    /\ UNCHANGED <<plan, made, open, dirs, present, content, watched, events, remote, walk, crashes, req, api, calls>>

\* Upload, lines 84-92: Close finalizes the object and Upload returns nil
UploadClose ==
    /\ pc = "close"
    /\ remote' = Commit(remote, ObjectOf(cur), wbuf)
    /\ upOk' = TRUE
    /\ pc' = "remove"
    /\ UNCHANGED <<plan, made, open, dirs, present, content, watched, events, via, cur,
                   walk, fsize, off, wbuf, res, faults, crashes, due, req, api, calls>>

\* variant: the error of Close is dropped and processFile goes on to delete
UploadCloseFaultIgnored ==
    /\ pc = "close"
    /\ faults < MaxFaults
    /\ faults' = faults + 1
    /\ pc' = "remove"
    /\ due' = {}
    /\ UNCHANGED <<plan, made, open, dirs, present, content, watched, events, remote,
                   via, cur, walk, fsize, off, wbuf, upOk, res, crashes, req, api, calls>>

\* Upload, lines 84-86: Close fails, nothing is committed
UploadCloseFault ==
    /\ pc = "close"
    /\ faults < MaxFaults
    /\ faults' = faults + 1
    /\ Return("closeErr")
    /\ due' = {}
    /\ UNCHANGED <<plan, made, open, dirs, present, content, watched, events, remote, walk, crashes, req, api, calls>>

\* variant: the delete is reported as done and the file is left
RemoveLocalKeeps ==
    /\ pc = "remove"
    /\ Return("deleted")
    /\ UNCHANGED <<plan, made, open, dirs, present, content, watched, events, remote,
                   walk, faults, crashes, due, req, api, calls>>

\* variant: the delete also drops the subscription of a directory it has
\* emptied
RemoveLocalUnwatches ==
    /\ pc = "remove"
    /\ IF cur \in present
       THEN /\ present' = present \ {cur}
            /\ events' = Notify(events, cur, {"Remove"})
            /\ watched' = IF \E g \in present \ {cur} : Dir(g) = Dir(cur)
                          THEN watched ELSE watched \ {Dir(cur)}
            /\ Return("deleted")
       ELSE /\ Return("removeErr")
            /\ UNCHANGED <<present, events, watched>>
    /\ UNCHANGED <<plan, made, open, dirs, content, remote, walk, faults, crashes, due, req, api, calls>>

\* processFile, lines 144-150: os.Remove after Upload returned nil
RemoveLocal ==
    /\ pc = "remove"
    /\ IF cur \in present
       THEN /\ present' = present \ {cur}
            /\ events' = Notify(events, cur, {"Remove"})
            /\ Return("deleted")
       ELSE /\ Return("removeErr")
            /\ UNCHANGED <<present, events>>
    /\ UNCHANGED <<plan, made, open, dirs, content, watched, remote, walk, faults, crashes, due, req, api, calls>>

\* processFile, lines 145-147: os.Remove fails and the file stays
RemoveFault ==
    /\ pc = "remove"
    /\ faults < MaxFaults
    /\ faults' = faults + 1
    /\ Return("removeErr")
    /\ due' = {}
    /\ UNCHANGED <<plan, made, open, dirs, present, content, watched, events, remote, walk, crashes, req, api, calls>>

\* variant: an error of the watcher ends the daemon
WatcherErrorFatal ==
    /\ pc = "idle"
    /\ faults < MaxFaults
    /\ faults' = faults + 1
    /\ pc' = "fatal"
    /\ UNCHANGED <<plan, made, open, dirs, present, content, watched, events, remote,
                   via, cur, walk, fsize, off, wbuf, upOk, res, crashes, due, req, api, calls>>

\* Start, lines 70-74: the watcher reports an error on its error channel;
\* the loop logs it and goes round again
WatcherError ==
    /\ pc = "idle"
    /\ faults < MaxFaults
    /\ faults' = faults + 1
    /\ UNCHANGED <<plan, made, open, dirs, present, content, watched, events, remote, pc,
                   via, cur, walk, fsize, off, wbuf, upOk, res, crashes, due, req, api, calls>>

\* the daemon process is killed: its goroutine, its watcher and an object
\* writer that was not closed are gone; the process is started again by Start
Crash ==
    /\ pc \notin {"stopped", "fatal"}
    /\ crashes < MaxCrashes
    /\ crashes' = crashes + 1
    /\ pc' = "stopped"
    /\ via' = "none"
    /\ cur' = NoPath
    /\ walk' = <<>>
    /\ watched' = {}
    /\ events' = <<>>
    /\ fsize' = 0
    /\ off' = 0
    /\ wbuf' = <<>>
    /\ upOk' = FALSE
    /\ res' = "none"
    /\ due' = {}
    /\ UNCHANGED <<plan, made, open, dirs, present, content, remote, faults, req, api, calls>>

Producer ==
    \/ \E d \in AllDirs : Mkdir(d)
    \/ \E f \in AllFiles : CreateFile(f)
    \/ \E f \in AllFiles : WriteChunk(f)
    \/ \E f \in AllFiles : Finish(f)

Daemon ==
    \/ Start
    \/ Tick
    \/ WalkStep
    \/ WalkEnd
    \/ RecvEvent
    \/ Settle
    \/ ProcessFile
    \/ UploadOpen
    \/ UploadRecheck
    \/ CopyStep
    \/ UploadClose
    \/ RemoveLocal
    \/ Resume

Fault ==
    \/ StartFatal
    \/ \E d \in AllDirs : WatchFault(d)
    \/ CopyReadFault
    \/ CopyWriteFault
    \/ UploadCloseFault
    \/ RemoveFault
    \/ WatcherError
    \/ Crash

Next == Producer \/ Daemon \/ Fault

Spec == Init /\ [][Next]_vars

\* the daemon goroutine keeps running: it is started when it is stopped, and
\* its loop takes whichever of a pending notification and a tick is ready
FairSpec == Init /\ [][Next]_vars /\ WF_vars(Daemon)

(***************************************************************************)
(* A daemon started on a tree left over from an earlier run: both          *)
(* artifacts are on disk, complete, of any length; nothing is written any  *)
(* more, and somebody other than the daemon may remove a file at any time. *)
(***************************************************************************)
LeftoverContent(f, n) == [i \in 1..n |-> ByteOf(f, i)]

ScanInit ==
    /\ plan = AllFiles
    /\ made = AllFiles
    /\ open = {}
    /\ dirs = AllDirs
    /\ present = AllFiles
    /\ \E n \in [AllFiles -> 0..MaxChunks] :
           content = [f \in AllFiles |-> LeftoverContent(f, n[f])]
    /\ watched = {}
    /\ events = <<>>
    /\ remote = {}
    /\ pc = "stopped"
    /\ via = "none"
    /\ cur = NoPath
    /\ walk = <<>>
    /\ fsize = 0
    /\ off = 0
    /\ wbuf = <<>>
    /\ upOk = FALSE
    /\ res = "none"
    /\ faults = 0
    /\ crashes = 0
    /\ due = {}
    /\ req = NoReq
    /\ api = "serving"
    /\ calls = <<>>

\* a file is removed by somebody else; a process that has it open keeps
\* reading the unlinked file
Vanish(f) ==
    /\ f \in present
    /\ present' = present \ {f}
    /\ events' = Notify(events, f, {"Remove"})
    /\ due' = due \ {f}
    /\ UNCHANGED <<plan, made, open, dirs, content, watched, remote, pc, via, cur,
                   walk, fsize, off, wbuf, upOk, res, faults, crashes, req, api, calls>>

ScanNext ==
    \/ Start
    \/ Tick
    \/ WalkStep
    \/ WalkEnd
    \/ RecvEvent
    \/ ProcessFile
    \/ UploadOpen
    \/ UploadRecheck
    \/ CopyStep
    \/ UploadClose
    \/ RemoveLocal
    \/ Resume
    \/ Fault
    \/ \E f \in AllFiles : Vanish(f)

ScanSpec == ScanInit /\ [][ScanNext]_vars

\* the daemon goroutine is always scheduled again
ScanFairSpec == ScanInit /\ [][ScanNext]_vars /\ WF_vars(Daemon)

(***************************************************************************)
(* The control surface (package api).  A recording name is the sequence of *)
(* the elements its slashes separate.  The handler runs in the pod, where  *)
(* the pod's own directory of the node's tree is mounted at profileDir.    *)
(***************************************************************************)
profileDir == << <<"t", "m", "p">>, <<"j", "f", "r">> >>
\* the pod the sidecar runs in
SidecarPod == <<"q">>
\* the name the handler gives a recording that comes without one
DefaultName == << <<"j", "f", "r", "_", "t">> >>
\* the recording names a client may send; the empty one is no name
RequestNames == {<<>>, << <<"a">> >>, << <<".", ".">>, <<"x">> >>, << <<"d">>, <<"a">> >>}

\* filepath.Clean of a rooted path: empty and "." elements go, ".." takes the
\* element before it with it
RECURSIVE CleanFrom(_, _)
CleanFrom(done, rest) ==
    IF rest = <<>> THEN done
    ELSE LET e == Head(rest) IN
         IF e = <<>> \/ e = <<".">>
         THEN CleanFrom(done, Tail(rest))
         ELSE IF e = <<".", ".">>
         THEN CleanFrom(IF done = <<>> THEN done ELSE SubSeq(done, 1, Len(done) - 1),
                        Tail(rest))
         ELSE CleanFrom(Append(done, e), Tail(rest))

\* filepath.Join
JoinAll(dir, elems) == CleanFrom(<<>>, dir \o elems)

\* createProfileHandler, lines 88-93 and 106
RecordingName(name) == IF name = <<>> THEN DefaultName ELSE name
Filename(name) == [name EXCEPT ![Len(name)] = @ \o JfrExt]
OutputPath(name) == JoinAll(profileDir, Filename(RecordingName(name)))

\* where a path of the pod is in the node's tree; NoPath when it is not on
\* the mounted volume
OnNode(path) ==
    IF Len(path) >= Len(profileDir) /\ SubSeq(path, 1, Len(profileDir)) = profileDir
    THEN rootProfileDir \o <<SidecarPod>> \o SubSeq(path, Len(profileDir) + 1, Len(path))
    ELSE NoPath

\* createProfileHandler: the JVM is told to record into the output path
CreateProfile(name) ==
    /\ api = "serving"
    /\ req = NoReq
    /\ plan = {}
    /\ LET outputPath == OutputPath(name) IN
        /\ req' = [name |-> RecordingName(name), path |-> outputPath]
        /\ plan' = IF OnNode(outputPath) \in AllFiles THEN {OnNode(outputPath)} ELSE {}
    /\ UNCHANGED <<made, open, dirs, present, content, watched, events, remote, pc, via,
                   cur, walk, fsize, off, wbuf, upOk, res, faults, crashes, due, api, calls>>

\* a recording the control surface has started and the JVM has not ended
Recording(f) == req # NoReq /\ f \in plan /\ ~Finished(f)

\* the sidecar process receives SIGTERM or SIGINT: main and api.Start set up
\* no handler for signals, so the process ends there and then, in the
\* middle of whatever it was serving
Sigterm ==
    /\ api = "serving"
    /\ api' = "terminated"
    /\ UNCHANGED <<plan, made, open, dirs, present, content, watched, events, remote, pc,
                   via, cur, walk, fsize, off, wbuf, upOk, res, faults, crashes, due, req, calls>>

ApiInit ==
    /\ plan = {}
    /\ made = {}
    /\ open = {}
    /\ dirs = InitialDirs
    /\ present = {}
    /\ content = [f \in AllFiles |-> <<>>]
    /\ watched = {}
    /\ events = <<>>
    /\ remote = {}
    /\ pc = "stopped"
    /\ via = "none"
    /\ cur = NoPath
    /\ walk = <<>>
    /\ fsize = 0
    /\ off = 0
    /\ wbuf = <<>>
    /\ upOk = FALSE
    /\ res = "none"
    /\ faults = 0
    /\ crashes = 0
    /\ due = {}
    /\ req = NoReq
    /\ api = "serving"
    /\ calls = <<>>

ApiNext ==
    \/ \E name \in RequestNames : CreateProfile(name)
    \/ Sigterm
    \/ Next

ApiSpec == ApiInit /\ [][ApiNext]_vars

(***************************************************************************)
(* The pipeline with the other notifications a watcher delivers: somebody  *)
(* changes the mode of an artifact, or renames it away.                    *)
(***************************************************************************)
\* chmod on an artifact: the watcher reports Chmod for its path
Chmod(f) ==
    /\ f \in present
    /\ events' = Notify(events, f, {"Chmod"})
    /\ UNCHANGED <<plan, made, open, dirs, present, content, watched, remote, pc, via, cur,
                   walk, fsize, off, wbuf, upOk, res, faults, crashes, due, req, api, calls>>

\* an artifact is renamed to a name outside the tree: the watcher reports
\* Rename for the old path; a process that has it open keeps its file
RenameAway(f) ==
    /\ f \in present
    /\ present' = present \ {f}
    /\ events' = Notify(events, f, {"Rename"})
    /\ due' = due \ {f}
    /\ UNCHANGED <<plan, made, open, dirs, content, watched, remote, pc, via, cur,
                   walk, fsize, off, wbuf, upOk, res, faults, crashes, req, api, calls>>

EventNext ==
    \/ \E f \in AllFiles : Chmod(f)
    \/ \E f \in AllFiles : RenameAway(f)
    \/ Next

EventSpec == Init /\ [][EventNext]_vars

(***************************************************************************)
(* Upload called for two files side by side on one uploader.  The          *)
(* uploader's fields, client and bucketName, are written by NewGCSUploader *)
(* only; everything Upload works with is in the locals of the call, kept   *)
(* here in the record of the call.  The store is the one thing the calls   *)
(* share.                                                                  *)
(***************************************************************************)
\* two more artifacts of pod q: one in a directory below the pod's, with the
\* base name of FileQA, and one next to FileQA
FileQDA == Join(Join(DirQ, <<"d">>), <<"a", ".", "j", "f", "r">>)
FileQB == Join(DirQ, <<"b", ".", "j", "f", "r">>)
UploadFiles == {FileQA, FileQDA, FileQB}
CallIds == {1, 2}

\* the bytes of file f when it is n bytes long
UploadFileId(f) == IF f = FileQA THEN 1 ELSE IF f = FileQDA THEN 2 ELSE 3
UploadData(f, n) == [i \in 1..n |-> 10 * UploadFileId(f) + i]

\* Upload, line 35: the call as processFile makes it (lines 122 and 139)
NewCall(filePath) ==
    [pc |-> "open", localPath |-> filePath, podName |-> PodName(filePath),
     fsize |-> 0, off |-> 0, wbuf |-> <<>>, res |-> "none"]

\* Upload, lines 62-63
CallObject(call) == ObjectPath(call.podName, Base(call.localPath))

\* Upload, lines 37-47
CallOpen(c) ==
    /\ calls[c].pc = "open"
    /\ calls' = IF calls[c].localPath \notin present
                THEN [calls EXCEPT ![c].pc = "done", ![c].res = "openErr"]
                ELSE [calls EXCEPT ![c].pc = "recheck",
                                   ![c].fsize = Len(content[calls[c].localPath])]
    /\ UNCHANGED <<plan, made, open, dirs, present, content, watched, events, remote, pc,
                   via, cur, walk, fsize, off, wbuf, upOk, res, faults, crashes, due, req, api>>

\* Upload, lines 51-68
CallRecheck(c) ==
    /\ calls[c].pc = "recheck"
    /\ calls' = IF Len(content[calls[c].localPath]) # calls[c].fsize
                THEN [calls EXCEPT ![c].pc = "done", ![c].res = "sizeChanged"]
                ELSE [calls EXCEPT ![c].pc = "copy", ![c].off = 0, ![c].wbuf = <<>>]
    /\ UNCHANGED <<plan, made, open, dirs, present, content, watched, events, remote, pc,
                   via, cur, walk, fsize, off, wbuf, upOk, res, faults, crashes, due, req, api>>

\* Upload, line 77: one round of io.Copy
CallCopy(c) ==
    /\ calls[c].pc = "copy"
    /\ LET call == calls[c]
           data == content[call.localPath]
       IN IF call.off = Len(data)
          THEN calls' = [calls EXCEPT ![c].pc = "close"]
          ELSE \E n \in 1..(Len(data) - call.off) :
                  calls' = [calls EXCEPT
                              ![c].wbuf = @ \o SubSeq(data, call.off + 1, call.off + n),
                              ![c].off = @ + n]
    /\ UNCHANGED <<plan, made, open, dirs, present, content, watched, events, remote, pc,
                   via, cur, walk, fsize, off, wbuf, upOk, res, faults, crashes, due, req, api>>

\* Upload, lines 84-92
CallClose(c) ==
    /\ calls[c].pc = "close"
    /\ remote' = Commit(remote, CallObject(calls[c]), calls[c].wbuf)
    /\ calls' = [calls EXCEPT ![c].pc = "done", ![c].res = "nil"]
    /\ UNCHANGED <<plan, made, open, dirs, present, content, watched, events, pc,
                   via, cur, walk, fsize, off, wbuf, upOk, res, faults, crashes, due, req, api>>

\* two different files of known length on disk, complete, and one call of
\* Upload for each, neither begun
ConcInit ==
    /\ \E f1, f2 \in UploadFiles :
        /\ f1 # f2
        /\ plan = {f1, f2}
        /\ made = {f1, f2}
        /\ present = {f1, f2}
        /\ calls = <<NewCall(f1), NewCall(f2)>>
    /\ \E len \in [UploadFiles -> 1..MaxChunks] :
        content = [f \in UploadFiles |-> UploadData(f, len[f])]
    /\ open = {}
    /\ dirs = AllDirs \cup {Dir(FileQDA)}
    /\ watched = {}
    /\ events = <<>>
    /\ remote = {}
    /\ pc = "stopped"
    /\ via = "none"
    /\ cur = NoPath
    /\ walk = <<>>
    /\ fsize = 0
    /\ off = 0
    /\ wbuf = <<>>
    /\ upOk = FALSE
    /\ res = "none"
    /\ faults = 0
    /\ crashes = 0
    /\ due = {}
    /\ req = NoReq
    /\ api = "serving"

ConcNext ==
    \E c \in CallIds :
        \/ CallOpen(c)
        \/ CallRecheck(c)
        \/ CallCopy(c)
        \/ CallClose(c)

ConcSpec == ConcInit /\ [][ConcNext]_vars

(***************************************************************************)
(* The daemon started on a tree that holds two complete artifacts of pod   *)
(* q, among them artifacts in a directory below the pod's: filepath.Walk   *)
(* descends into it and processFile accepts any depth below the root.      *)
(***************************************************************************)
DeepInit ==
    /\ \E f1, f2 \in UploadFiles :
        /\ f1 # f2
        /\ plan = {f1, f2}
        /\ made = {f1, f2}
        /\ present = {f1, f2}
    /\ \E len \in [UploadFiles -> 1..MaxChunks] :
        content = [f \in UploadFiles \cup AllFiles |->
                      IF f \in UploadFiles THEN UploadData(f, len[f]) ELSE <<>>]
    /\ open = {}
    /\ dirs = AllDirs \cup {Dir(FileQDA)}
    /\ watched = {}
    /\ events = <<>>
    /\ remote = {}
    /\ pc = "stopped"
    /\ via = "none"
    /\ cur = NoPath
    /\ walk = <<>>
    /\ fsize = 0
    /\ off = 0
    /\ wbuf = <<>>
    /\ upOk = FALSE
    /\ res = "none"
    /\ faults = 0
    /\ crashes = 0
    /\ due = {}
    /\ req = NoReq
    /\ api = "serving"
    /\ calls = <<>>

DeepNext ==
    \/ Start
    \/ Tick
    \/ WalkStep
    \/ WalkEnd
    \/ RecvEvent
    \/ ProcessFile
    \/ UploadOpen
    \/ UploadRecheck
    \/ CopyStep
    \/ UploadClose
    \/ RemoveLocal
    \/ Resume

DeepSpec == DeepInit /\ [][DeepNext]_vars

\* the store after the two calls run one after the other, call a first
Serial(a, b) ==
    Commit(Commit({}, CallObject(calls[a]), content[calls[a].localPath]),
           CallObject(calls[b]), content[calls[b].localPath])

TypeOK ==
    /\ pc \in {"stopped", "fatal", "idle", "walk", "settle", "process", "open",
               "recheck", "copy", "close", "remove", "ret"}
    /\ present \subseteq made
    /\ open \subseteq made
    /\ made \subseteq plan
    /\ watched \subseteq dirs
    /\ Len(events) <= MaxQueue
    /\ api \in {"serving", "terminated"}


(***************************************************************************)
(* Properties.                                                             *)
(***************************************************************************)
IsPrefix(a, b) == Len(a) <= Len(b) /\ SubSeq(b, 1, Len(a)) = a

\* the daemon takes a step of the attempt in progress (it is not killed)
Moves == pc' # pc /\ pc' # "stopped"

\* C1: a local file loses its directory entry only in the delete step of a
\* processFile call on that very path in which Upload has returned nil, and
\* the object of that path is then in the store; no other step of the daemon
\* (skip, structural error, Stat error, size change, transfer error) and no
\* step of the producer deletes a file.
C1_DeleteOnlyAfterUpload ==
    [][\A f \in AllFiles :
         (f \in present /\ f \notin present')
            => /\ pc = "remove" /\ cur = f /\ upOk
               /\ res' = "deleted"
               /\ HasObject(ObjectOf(f))]_vars

C1_Witness ==
    /\ pc = "ret" /\ res = "deleted" /\ upOk
    /\ cur \notin present
    /\ HasObject(ObjectOf(cur))

\* C2: when Upload fails while streaming (io.Copy error) or finalizing (Close
\* error), the store is left as it was before the call, or holds a complete
\* copy of the file: never the bytes written before the failure.
C2_NoPartialObject ==
    [][(pc \in {"copy", "close"} /\ res' \in {"copyErr", "closeErr"})
          => \/ remote' = remote
             \/ Object(ObjectOf(cur), content[cur]) \in remote']_vars

\* C3 as stated: after a successful Upload the object is the file as it was
\* when the size check passed (its first fsize bytes), whatever the producer
\* appended meanwhile.
C3_CopyOfCheckedContent ==
    (pc = "remove" /\ upOk)
        => ObjectData(ObjectOf(cur)) = SubSeq(content[cur], 1, fsize)

\* C3 as amended: after a successful Upload the object is the file as it was
\* when the copy reached the end of the file: it starts with the content the
\* size check saw and is a prefix of what the file holds now; it equals the
\* checked content when the producer appended nothing in between.
C3_CopyUpToEndOfFile ==
    (pc = "remove" /\ upOk)
        => /\ HasObject(ObjectOf(cur))
           /\ IsPrefix(SubSeq(content[cur], 1, fsize), ObjectData(ObjectOf(cur)))
           /\ IsPrefix(ObjectData(ObjectOf(cur)), content[cur])

C3_Witness ==
    /\ pc = "remove" /\ upOk
    /\ HasObject(ObjectOf(cur))
    /\ Len(ObjectData(ObjectOf(cur))) > fsize

\* C4 as stated: no producer write is lost: a file the daemon has uploaded
\* and deleted is in the store with everything the producer wrote into it.
C4_NoWriteLost ==
    \A f \in made : f \notin present => Object(ObjectOf(f), content[f]) \in remote

\* C4 as amended: a file whose size differs between the two Stat calls of
\* Upload is not uploaded and not deleted in that attempt: Upload returns an
\* error, the store and the file are left as they are.  (Growth outside that
\* window is not detected.)
C4_GrowthInWindowAborts ==
    [][(pc = "recheck" /\ Len(content[cur]) # fsize /\ Moves)
          => /\ pc' = "ret" /\ res' = "sizeChanged"
             /\ UNCHANGED <<present, content, remote>>]_vars

C4_Witness ==
    /\ pc = "ret" /\ res = "sizeChanged"
    /\ cur \in present
    /\ ~HasObject(ObjectOf(cur))

\* C6: when the loop handles the create notification of a new directory, the
\* directory is in the subscription set afterwards.
C6_NewDirectoryWatched ==
    [][(/\ pc = "idle" /\ events # <<>> /\ events' = Tail(events)
        /\ Head(events).name \in dirs
        /\ "Create" \in Head(events).op)
          => Head(events).name \in watched']_vars

\* C7: a processFile call that finds the file empty returns nil without
\* calling Upload and without deleting; and while a file is empty no Upload
\* is in progress for it and it keeps its directory entry.
C7_ZeroByteSkip ==
    /\ [](\A f \in made : content[f] = <<>>
            => /\ f \in present
               /\ ~(cur = f /\ pc \in {"open", "recheck", "copy", "close", "remove"}))
    /\ [][(/\ pc = "process" /\ ValidStructure(cur) /\ cur \in present
           /\ content[cur] = <<>> /\ Moves)
             => /\ pc' = "ret" /\ res' = "empty"
                /\ UNCHANGED <<present, remote>>]_vars

C7_Witness ==
    /\ pc = "ret" /\ res = "empty"
    /\ cur \in present /\ content[cur] = <<>>

\* C8: an artifact with fewer than two path elements below the root keeps
\* its directory entry, none of its bytes reaches the store, and every attempt
\* on it returns the structural error, also when the file is empty or gone
\* (the Stat that would find that out is not reached).
C8_ShallowPathSkipped ==
    \A f \in AllFiles : Dir(f) = rootProfileDir =>
        /\ f \in made => f \in present
        /\ \A o \in remote : \A i \in 1..Len(o.data) :
              o.data[i] \notin {ByteOf(f, j) : j \in 1..MaxChunks}
        /\ cur = f => /\ pc \in {"settle", "process", "ret"}
                      /\ pc = "ret" => res = "structErr"

C8_Witness ==
    /\ pc = "ret" /\ res = "structErr" /\ via = "event"
    /\ cur \in present /\ content[cur] # <<>>


\* f has left the local tree and the store holds all of it
Offloaded(f) == f \notin present /\ Object(ObjectOf(f), content[f]) \in remote

\* f has left the local tree and the store holds an object for it
Gone(f) == f \notin present /\ HasObject(ObjectOf(f))

\* C5: every artifact in a pod directory that is not empty and that the
\* producer has finished is eventually uploaded and deleted, and uploaded
\* whole when no attempt was already working on it, unless the daemon exits
\* at startup; this needs no notification (the witness is a file in a
\* directory that was never subscribed, deleted by a scan).  The bound: a
\* scan that runs to its end without a fault has uploaded whole and deleted
\* every such artifact that was on disk when the scan began, so one tick is
\* enough.
C5_ScanConverges ==
    /\ \A f \in AllFiles :
        /\ Settled(f) ~> (Gone(f) \/ pc = "fatal")
        /\ (Settled(f) /\ cur # f) ~> (Offloaded(f) \/ pc = "fatal")
    /\ [][(pc = "walk" /\ pc' = "idle") => \A f \in due : Offloaded(f)']_vars

C5_Witness ==
    /\ pc = "ret" /\ res = "deleted" /\ via = "scan"
    /\ Dir(cur) \notin watched
    /\ cur \in due
    /\ Offloaded(cur)


\* C9: an attempt whose Upload returns an error leaves the file in place and
\* unmodified; a scan that starts while a non-empty artifact is in a pod
\* directory leads to an Upload call for it from a scan, whatever happened to
\* it before; and a finished file whose attempt has just failed is still
\* uploaded whole and deleted later on (there is no cap on the attempts).
C9_RetryUntilUploaded ==
    /\ [][(res = "none" /\ res' \in TransferErrors)
            => /\ cur \in present'
               /\ UNCHANGED <<present, content>>]_vars
    /\ \A f \in AllFiles :
         (/\ pc = "walk" /\ walk = <<rootProfileDir>>
          /\ Dir(f) # rootProfileDir /\ f \in present /\ content[f] # <<>>)
            ~> ((pc = "open" /\ cur = f /\ via = "scan") \/ pc = "fatal")
    /\ \A f \in AllFiles :
         (pc = "ret" /\ cur = f /\ res \in TransferErrors /\ Settled(f))
            ~> (Offloaded(f) \/ pc = "fatal")

C9_Witness ==
    /\ pc = "ret" /\ res = "deleted" /\ via = "scan"
    /\ faults > 0
    /\ Dir(cur) \notin watched
    /\ Offloaded(cur)

\* C10: killing the daemon changes neither the local tree nor the store, and
\* the file of an Upload that has not returned is still in the local tree;
\* after the kill, a non-empty artifact in a pod directory is found again by a
\* scan, which calls Upload for it (unless the daemon exits at startup).
C10_CrashSafe ==
    /\ [](pc \in {"open", "recheck", "copy", "close"} => cur \in present)
    /\ [][(pc # "stopped" /\ pc' = "stopped")
            => UNCHANGED <<present, content, remote>>]_vars
    /\ \A f \in AllFiles :
         (/\ pc = "stopped" /\ crashes > 0
          /\ Dir(f) # rootProfileDir /\ f \in present /\ content[f] # <<>>)
            ~> ((pc = "open" /\ cur = f /\ via = "scan") \/ pc = "fatal")

C10_Witness ==
    /\ crashes > 0
    /\ pc = "open" /\ via = "scan"
    /\ ~HasObject(ObjectOf(cur))


C12_GoneFileIsNoError ==
    [][(/\ pc \in {"process", "remove"}
        /\ ValidStructure(cur)
        /\ cur \notin present
        /\ Moves)
       => res' \notin ErrorResults]_vars


\* where the daemon is inside Upload
InUpload == {"open", "recheck", "copy", "close"}

\* C13: the coordinator settles before it calls Upload, for a candidate
\* found by a scan as for one found by an event; and an attempt that is
\* abandoned because the size changed is abandoned by the coordinator,
\* before Upload is called.
C13_ProberBeforeUpload ==
    /\ [][(pc = "process" /\ pc' = "open") => via = "event"]_vars
    /\ [][(res = "none" /\ res' = "sizeChanged") => pc \notin InUpload]_vars


\* C14: when the size read after Upload's delay differs from the size read
\* when the file was opened, Upload returns its error with no object writer
\* created and nothing committed, and the local file keeps its entry and
\* its content; the attempt is over with the file not uploaded.
C14_RecheckAbortsCleanly ==
    /\ [][(pc = "recheck" /\ Len(content[cur]) # fsize /\ Moves)
          => /\ res' = "sizeChanged"
             /\ wbuf' = <<>>
             /\ ~upOk'
             /\ cur' = cur
             /\ UNCHANGED <<remote, present, content>>]_vars
    /\ [](res = "sizeChanged" => pc = "ret" /\ ~upOk /\ cur \in present)

C14_Witness ==
    /\ pc = "ret" /\ res = "sizeChanged" /\ via = "scan"
    /\ cur \in present /\ Len(content[cur]) = MaxChunks
    /\ remote = {}


\* C15: Upload returns nil only in the step in which Close has finalized
\* the object, which then holds everything that was written to the writer;
\* processFile comes to its delete only after that; and a copy or a Close
\* that fails makes Upload return an error.
C15_NilOnlyAfterFinalize ==
    /\ [][(~upOk /\ upOk')
          => /\ pc = "close" /\ pc' = "remove"
             /\ remote' = Commit(remote, ObjectOf(cur), wbuf)
             /\ Object(ObjectOf(cur), wbuf) \in remote']_vars
    /\ [](pc = "remove" => upOk /\ HasObject(ObjectOf(cur)))
    /\ [][(pc \in {"copy", "close"} /\ faults' # faults)
          => /\ pc' = "ret"
             /\ res' \in {"copyErr", "closeErr"}
             /\ ~upOk']_vars

C15_Witness ==
    /\ pc = "ret" /\ res = "closeErr" /\ ~upOk
    /\ cur \in present /\ remote = {}


\* C16: every object in the store is named by the first element below the
\* root and the base name of an artifact <root>/<sourceID>/<name>.jfr that
\* was created, and holds bytes of that file; and when Upload has returned
\* nil for such a file the object of that name exists.
C16_ObjectNaming ==
    LET depth == Len(rootProfileDir) IN
    /\ \A o \in remote : \E f \in made :
          /\ Len(f) = depth + 2
          /\ SubSeq(f, 1, depth) = rootProfileDir
          /\ o.name = <<f[depth + 1], f[depth + 2]>>
          /\ IsPrefix(o.data, content[f])
    /\ (pc = "remove" /\ upOk)
          => \E o \in remote : o.name = <<cur[depth + 1], cur[Len(cur)]>>

C16_Witness ==
    /\ pc = "ret" /\ res = "deleted"
    /\ remote = {Object(<< <<"q">>, <<"a", ".", "j", "f", "r">> >>, content[FileQA])}


\* the walk in progress has still to come to f: f itself, or a directory
\* above it, is among the paths left to visit
Ahead(f) == \E i \in 1..Len(walk) : IsPrefix(walk[i], f)

\* C17: a scan starts with every file ahead of it; a file that exists
\* stops being ahead only by being handed to processFile, whatever happened
\* to the entries before it (vanished, failed); whatever processFile
\* returns, the walk goes on with all it had left; and the scan goes back to
\* the loop only when nothing is left.  Only a kill ends a scan early.
C17_ScanNeverAborts ==
    /\ [][(via # "scan" /\ via' = "scan") => \A f \in AllFiles : Ahead(f)']_vars
    /\ [][\A f \in AllFiles :
            (via = "scan" /\ Ahead(f) /\ ~Ahead(f)' /\ f \in present' /\ pc' # "stopped")
               => (pc' = "process" /\ cur' = f)]_vars
    /\ [][(via = "scan" /\ pc # "walk" /\ pc' # "stopped")
            => /\ walk' = walk
               /\ pc' # "idle"
               /\ (pc' = "walk" => pc = "ret")]_vars
    /\ [][(via = "scan" /\ pc' = "idle") => (pc = "walk" /\ walk = <<>>)]_vars

\* the first artifact of the walk has failed and is still there, and the
\* walk has come to the next one
C17_Witness ==
    /\ pc = "process" /\ via = "scan" /\ cur = FileX
    /\ faults > 0 /\ crashes = 0
    /\ FileQA \in present /\ content[FileQA] # <<>>


\* C18: while an attempt on a path is in progress, from processFile's entry
\* to its return, the daemon receives no notification and starts no scan,
\* so the attempt stays the only one and stays on its path; an Upload
\* starts only from processFile with no other Upload in flight; and the
\* file of an Upload in flight is not deleted.
C18_OneAttemptAtATime ==
    /\ [][(pc \in {"process", "remove"} \cup InUpload /\ pc' # "stopped")
            => /\ cur' = cur
               /\ via' = via
               /\ walk' = walk
               /\ Len(events') >= Len(events)
               /\ pc' \in {"process", "remove", "ret"} \cup InUpload]_vars
    /\ [][(pc # "open" /\ pc' = "open") => pc = "process"]_vars
    /\ [][\A f \in AllFiles :
            (pc \in InUpload /\ cur = f /\ f \in present) => f \in present']_vars

\* an Upload is in flight and a notification for the same path is waiting
C18_Witness ==
    /\ pc = "copy" /\ off > 0
    /\ events # <<>>
    /\ Head(events).name = cur
    /\ "Write" \in Head(events).op


\* the outcomes of an attempt, told from what processFile returned
NotReady ==
    /\ res \in {"empty", "structErr", "statErr"}
    /\ ~upOk
    /\ res # "statErr" => cur \in present
UploadFailed == res \in TransferErrors /\ ~upOk /\ cur \in present
Deleted == res = "deleted" /\ upOk /\ cur \notin present
DeleteFailed == res = "removeErr" /\ upOk /\ cur \in present /\ HasObject(ObjectOf(cur))

\* every attempt comes to its return, unless the daemon is killed first
AttemptTerminates == (pc = "process") ~> (pc \in {"ret", "stopped"})

\* the outcome is decided where it should be: before Upload, inside Upload,
\* or at the delete after Upload returned nil
OutcomeDecidedInPlace ==
    [][(res = "none" /\ res' # "none")
        => /\ pc' = "ret"
           /\ res' \in {"empty", "structErr", "statErr"} => pc = "process"
           /\ res' \in TransferErrors => pc \in InUpload
           /\ res' \in {"deleted", "removeErr"} => (pc = "remove" /\ upOk)]_vars

\* C19, as stated: every attempt ends NotReady, UploadFailed or Deleted, and
\* once Upload has returned nil it ends Deleted.
C19_ThreeOutcomes ==
    /\ AttemptTerminates
    /\ [](pc = "ret" => (NotReady \/ UploadFailed \/ Deleted))
    /\ [](pc = "ret" /\ upOk => Deleted)

\* C19, as amended: there is a fourth outcome, DeleteFailed: Upload returned
\* nil, the object is in the store, os.Remove failed and the file is left.
\* Every attempt ends in exactly one of the four.
C19_FourOutcomes ==
    /\ AttemptTerminates
    /\ OutcomeDecidedInPlace
    /\ [](pc = "ret" =>
            Cardinality({o \in {"NotReady", "UploadFailed", "Deleted", "DeleteFailed"} :
                \/ o = "NotReady" /\ NotReady
                \/ o = "UploadFailed" /\ UploadFailed
                \/ o = "Deleted" /\ Deleted
                \/ o = "DeleteFailed" /\ DeleteFailed}) = 1)
    /\ [](pc = "ret" /\ upOk => (Deleted \/ DeleteFailed))

C19_Witness ==
    /\ pc = "ret" /\ res = "removeErr" /\ upOk
    /\ cur \in present
    /\ Object(ObjectOf(cur), content[cur]) \in remote


\* C20: when the loop receives a notification whose operation includes
\* Remove, handleFileEvent returns at once: no attempt starts, so nothing is
\* stat-ed, uploaded or deleted, and the tree and the store stay as they are.
C20_RemoveEventIgnored ==
    [][(/\ pc = "idle"
        /\ events # <<>>
        /\ events' = Tail(events)
        /\ "Remove" \in Head(events).op
        /\ pc' # "stopped")
       => /\ pc' = "idle"
          /\ UNCHANGED <<cur, via, res, upOk, dirs, present, content, remote>>]_vars

\* the notification of the daemon's own delete is the next to be received
C20_Witness ==
    /\ pc = "idle"
    /\ events # <<>>
    /\ "Remove" \in Head(events).op
    /\ Head(events).name \notin present
    /\ HasObject(ObjectOf(Head(events).name))


\* C21: the daemon is past its startup only with the root subscribed; a
\* fatal exit is taken from startup, before anything was scanned, and
\* changes neither tree nor store; and a daemon that has exited does nothing
\* more: no scan, no attempt, no upload, no delete, whatever the producer
\* goes on to write.
C21_FatalStartup ==
    /\ [](pc \notin {"stopped", "fatal"} => rootProfileDir \in watched)
    /\ [][(pc # "fatal" /\ pc' = "fatal")
            => /\ pc = "stopped"
               /\ UNCHANGED <<present, content, remote, watched, walk, cur>>]_vars
    /\ [][pc = "fatal"
            => /\ pc' = "fatal"
               /\ present \subseteq present'
               /\ UNCHANGED <<remote, watched, events, walk, cur, via, res, upOk>>]_vars

\* the daemon has exited at startup and a complete artifact stays on disk
C21_Witness ==
    /\ pc = "fatal" /\ crashes = 0
    /\ remote = {}
    /\ \E f \in present : Settled(f)


\* C22: when the subscription of a directory below the root fails at
\* startup, the daemon carries on: it has the root subscribed and goes on to
\* its initial scan.
C22_SubdirWatchFailureTolerated ==
    [][(pc = "stopped" /\ faults' # faults)
        => (pc' = "walk" /\ rootProfileDir \in watched')]_vars


\* p is an artifact of the form <root>/<sourceID>/<name>.jfr that
\* processFile's structure check accepts
WellPlaced(p) ==
    /\ p # NoPath
    /\ Len(p) = Len(rootProfileDir) + 2
    /\ SubSeq(p, 1, Len(rootProfileDir)) = rootProfileDir
    /\ HasSuffix(Base(p), JfrExt)
    /\ ValidStructure(p)

\* C23: the output file of every create request the control surface has
\* served is, in the node's tree, an artifact <root>/<sourceID>/<name>.jfr.
C23_LayoutHonoured == req # NoReq => WellPlaced(OnNode(req.path))


\* C24: when the sidecar has finished shutting down after a signal, no
\* recording that was running when the signal came is still running.
C24_ShutdownStopsRecordings ==
    [][(api = "serving" /\ api' = "terminated")
        => \A f \in AllFiles : Recording(f) => ~Recording(f)']_vars


\* C25: an attempt for a path that an earlier attempt has uploaded and
\* deleted ends in processFile, before Upload and before the delete, and
\* changes neither the store nor the local tree; and a scan over a tree with
\* no artifact left hands nothing to processFile.
C25_RediscoveryHarmless ==
    /\ [][(pc = "process" /\ Gone(cur) /\ Moves)
            => /\ pc' = "ret"
               /\ res' \notin {"deleted", "empty"} \cup TransferErrors
               /\ UNCHANGED <<remote, present, content, dirs>>]_vars
    /\ [][(pc = "walk" /\ present = {}) => pc' # "process"]_vars

\* a stale notification for a file that is already uploaded whole and deleted
C25_Witness ==
    /\ pc = "ret" /\ via = "event" /\ res = "statErr"
    /\ Offloaded(cur) /\ Finished(cur)


\* the positions of an attempt, from the call of processFile to its return
Attempt == {"process", "remove"} \cup InUpload

\* what the gate of processFile decides for file f in the state at hand
GateOutcome(f) ==
    IF ~ValidStructure(f) THEN "structErr"
    ELSE IF f \notin present THEN "statErr"
    ELSE IF Len(content[f]) = 0 THEN "empty"
    ELSE "upload"

\* C26: what an attempt does at each of its checks depends on the file, the
\* file system and the store only, not on whether a scan or an event found
\* the candidate: the structure, existence and non-empty checks, the size
\* comparison and the delete decide the same way for both, the attempt keeps
\* its candidate, and both kinds of attempt reach Upload.
C26_SamePathForScanAndEvent ==
    /\ [][(pc \in Attempt /\ Moves) => (via' = via /\ cur' = cur)]_vars
    /\ [][(pc = "process" /\ Moves)
            => IF GateOutcome(cur) = "upload"
               THEN pc' = "open" /\ res' = "none"
               ELSE pc' = "ret" /\ res' = GateOutcome(cur)]_vars
    /\ [][(pc = "recheck" /\ Moves)
            => IF Len(content[cur]) # fsize
               THEN pc' = "ret" /\ res' = "sizeChanged" /\ remote' = remote
               ELSE pc' = "copy"]_vars
    /\ [][(pc = "remove" /\ Moves /\ faults' = faults)
            => /\ pc' = "ret"
               /\ res' = IF cur \in present THEN "deleted" ELSE "removeErr"
               /\ present' = present \ {cur}]_vars
    /\ [](pc \in Attempt \cup {"ret"} => via \in {"scan", "event"})

\* an attempt started by a notification has uploaded and deleted its file,
\* as the attempts of a scan do
C26_Witness ==
    /\ pc = "ret" /\ via = "event" /\ res = "deleted"
    /\ Offloaded(cur) /\ faults = 0 /\ crashes = 0


\* C27: as long as the daemon process lives, a directory that is in the
\* subscription set stays in it, whatever the pipeline does, the delete of
\* the last artifact of the directory included.
C27_WatchSetNeverShrinks ==
    [][pc' # "stopped" => watched \subseteq watched']_vars

\* the delete after an upload has emptied a subscribed directory
C27_Witness ==
    /\ pc = "ret" /\ res = "deleted"
    /\ Dir(cur) \in watched /\ Dir(cur) # rootProfileDir
    /\ \A g \in present : Dir(g) # Dir(cur)


\* C28: an error received from the watcher while the loop waits changes
\* nothing: the loop stays where it was, ready for the next event or tick,
\* no attempt is started, and the store, the local tree, the subscriptions
\* and the queued notifications are as before.
C28_WatcherErrorNotFatal ==
    [][(pc = "idle" /\ faults' # faults)
        => /\ pc' = "idle"
           /\ UNCHANGED <<remote, present, content, watched, events, via, cur, res, walk>>]_vars

\* the loop has received a watcher error (nothing else can have failed: no
\* file was ever created and the start went well) and then handled a tick
C28_Witness ==
    /\ pc = "walk" /\ via = "scan"
    /\ faults > 0 /\ crashes = 0 /\ made = {}


\* C29: when two calls of Upload for two different files, run side by side,
\* have both returned, both have returned nil and the store holds what it
\* holds after the two calls run one after the other, in the one order and
\* in the other.
C29_ConcurrentAsSerial ==
    (DOMAIN calls = CallIds /\ \A c \in CallIds : calls[c].pc = "done")
        => /\ \A c \in CallIds : calls[c].res = "nil"
           /\ remote = Serial(1, 2)
           /\ remote = Serial(2, 1)


\* C30: the loop starts an attempt for a notification exactly when the path
\* ends in .jfr and the operation includes Create or Write and not Remove;
\* for every other notification (a directory, a Chmod, a Rename, a Remove)
\* it stays where it was and nothing is stat-ed, uploaded or deleted.
C30_EventFilter ==
    [][(/\ pc = "idle"
        /\ events # <<>>
        /\ events' = Tail(events)
        /\ pc' # "stopped")
       => LET event == Head(events) IN
          IF /\ PathHasSuffix(event.name, JfrExt)
             /\ event.op \cap {"Create", "Write"} # {}
             /\ "Remove" \notin event.op
          THEN /\ pc' = "settle"
               /\ cur' = event.name
               /\ via' = "event"
          ELSE /\ pc' = "idle"
               /\ UNCHANGED <<cur, via, res, upOk, dirs, present, content, remote>>]_vars

\* a Chmod or Rename notification for an artifact is the next to be
\* received, while the store is still empty
C30_Witness ==
    /\ pc = "idle"
    /\ events # <<>>
    /\ Head(events).op \in {{"Chmod"}, {"Rename"}}
    /\ PathHasSuffix(Head(events).name, JfrExt)
    /\ ValidStructure(Head(events).name)
    /\ remote = {}


\* C31: an artifact the daemon has uploaded and deleted has its content in
\* the store, under its own object name, whatever else was uploaded: no two
\* artifacts share an object.
C31_NoCollisionLoss ==
    \A f \in plan :
        (f \in UploadFiles /\ f \notin present)
            => Object(ObjectOf(f), content[f]) \in remote


\* C32: the daemon leaves its startup only into the initial scan, with every
\* existing directory subscribed and no notification received yet; it
\* enters the event loop only at the end of a walk that has visited
\* everything (or back from an attempt the loop itself started), and only
\* the loop receives notifications and ticks; a scan that ends without a
\* fault, the initial one included, has uploaded and deleted every complete
\* artifact it found on disk; and the loop is reached after every start and
\* after every failed attempt of a scan, unless the daemon exits at startup.
C32_StartupOrder ==
    /\ [][(pc = "stopped" /\ pc' \notin {"stopped", "fatal"})
            => /\ pc' = "walk" /\ via' = "scan" /\ walk' = <<rootProfileDir>>
               /\ watched' = dirs
               /\ events' = events]_vars
    /\ [][(pc' = "idle" /\ pc # "idle")
            => \/ pc = "walk" /\ walk = <<>>
               \/ pc = "ret" /\ via = "event"]_vars
    /\ [][(events # <<>> /\ events' = Tail(events) /\ pc' # "stopped")
            => pc = "idle"]_vars
    /\ [][(pc' = "walk" /\ walk' = <<rootProfileDir>> /\ pc # "walk")
            => pc \in {"stopped", "idle"}]_vars
    /\ [][(pc = "walk" /\ pc' = "idle") => \A f \in due : Offloaded(f)']_vars
    /\ (pc = "stopped") ~> (pc = "idle" \/ pc = "fatal")
    /\ (pc = "ret" /\ via = "scan" /\ res \in ErrorResults)
            ~> (pc = "idle" \/ pc = "fatal")

\* the event loop after an initial scan in which the attempt for an artifact
\* that was on disk before the start has failed
C32_Witness ==
    /\ pc = "idle"
    /\ faults > 0 /\ crashes = 0
    /\ FileQA \in present /\ content[FileQA] # <<>>
    /\ HasObject(ObjectOf(FileQA))

====
